---- MODULE Spec2Model ----
(***************************************************************************)
(* Model of the BVL ingestion pipeline (Scraper/src/bvl_fetcher.py) and of *)
(* the read API (BackEnd/src/main.py).                                     *)
(*                                                                         *)
(* Write path: EnhancedBVLDataFetcher.run drives fetch_data, process_data  *)
(* and save_data; save_data rewrites the CSV file in place.                *)
(* Read path: CSVDataLoader._load_data reads the CSV file once, the        *)
(* endpoints answer from the loaded DataFrame.                             *)
(***************************************************************************)
EXTENDS Integers, Sequences, FiniteSets, TLC

VARIABLES
    iterations,        \* self.iterations
    target_companies,  \* self.target_companies
    pc,                \* position of run()
    i,                 \* loop index of run()
    attempts,          \* outcomes of the network attempts of the current fetch_data call
    data,              \* run(): data
    df,                \* run(): df
    combined,          \* save_data(): combined
    written,           \* save_data(): rows of combined that to_csv has written so far
    saved,             \* result of the last save_data call
    file,              \* the CSV file output_dir/csv_filename
    storeBefore,       \* history: the file as it was when the current iteration began
    fetchCalls,        \* history: number of fetch_data calls made by run()
    iterCalls,         \* history: process_data and save_data calls of the current iteration
    bpc,               \* position of the backend process
    csv_path_set,      \* whether the global CSV_PATH got assigned
    snapshot,          \* data_loader.df
    response           \* the last HTTP response of the backend

scraperVars == <<iterations, target_companies, pc, i, attempts, data, df, combined,
                 written, saved, file, storeBefore, fetchCalls, iterCalls>>
backendVars == <<bpc, csv_path_set, snapshot, response>>
vars == <<iterations, target_companies, pc, i, attempts, data, df, combined,
          written, saved, file, storeBefore, fetchCalls, iterCalls,
          bpc, csv_path_set, snapshot, response>>

----------------------------------------------------------------------------
(* Bounds of the model *)

MaxIterations == 2
MaxContent == 2
MaxStoreRows == 2

(* Program constants *)

StopAfterAttempt == 3
CutoffDays == 30

(* pandas' missing value (NaN / NaT); a JSON null becomes NaN in a DataFrame *)
NaN == -1
(* a key that a JSON record does not carry *)
Absent == -2

----------------------------------------------------------------------------
(* Value sets the inputs are drawn from *)

Names == {"CREDICORP LTD.", "ALICORP"}
LastValues == {10, 11}
Times == {1, 2}

SeqsUpTo(S, n) == UNION {[1..k -> S] : k \in 0..n}

----------------------------------------------------------------------------
(* JSON bodies the upstream API can answer with *)

(* one per-company record; a key whose value is Absent is not in the record *)
MkRecord(name, last, buy, sell) ==
    LET full == [companyName |-> name, last |-> last, buy |-> buy, sell |-> sell]
        keys == {"companyName"} \cup {k \in {"last", "buy", "sell"} : full[k] # Absent}
    IN  [k \in keys |-> full[k]]

(* the records the inputs are drawn from: the default target company with
   every price and null quotes, another company, and one record that carries
   no quote keys at all *)
RawRecords ==
    {MkRecord("CREDICORP LTD.", l, NaN, NaN) : l \in LastValues}
    \cup {MkRecord("ALICORP", 10, NaN, NaN), MkRecord("CREDICORP LTD.", 10, Absent, Absent)}

(* "None": the body is null; "EmptyDict": {}; "NoContent": an object without
   the key content; "ContentNotList": content is not a list; "Content": content
   is the list of records *)
NoneData == [kind |-> "None", content |-> << >>]

Payloads ==
    {[kind |-> k, content |-> << >>] : k \in {"None", "EmptyDict", "NoContent", "ContentNotList"}}
    \cup {[kind |-> "Content", content |-> c] : c \in SeqsUpTo(RawRecords, MaxContent)}

(* a truth value that takes only the null body for false *)
MutTruthy(d) == d.kind # "None"

(* the truth value Python gives a payload in `if not data` *)
Truthy(d) == d.kind \notin {"None", "EmptyDict"}

(* what one network attempt can end in: requests.post raises, raise_for_status
   raises, response.json() raises, or a body is returned *)
NetworkOutcomes ==
    {[kind |-> k, json |-> NoneData] : k \in {"ConnectionError", "HTTPError", "JSONDecodeError"}}
    \cup {[kind |-> "ok", json |-> p] : p \in Payloads}

----------------------------------------------------------------------------
(* DataFrames: a set of columns and a sequence of rows, each row a function
   from the columns to values *)

NoneDF == [none |-> TRUE, columns |-> {}, rows |-> << >>]

Frame(cols, rows) == [none |-> FALSE, columns |-> cols, rows |-> rows]

(* pd.DataFrame(list of dicts): the columns are the union of the keys, a key a
   record lacks is NaN in its row *)
DataFrameOf(records) ==
    LET cols == UNION {DOMAIN records[k] : k \in DOMAIN records}
    IN  Frame(cols, [k \in DOMAIN records |->
                        [c \in cols |-> IF c \in DOMAIN records[k] THEN records[k][c] ELSE NaN]])

(* df[cols] = df[cols].fillna(v) *)
FillNa(d, cols, v) ==
    Frame(d.columns, [k \in DOMAIN d.rows |->
                        [c \in d.columns |-> IF c \in cols /\ d.rows[k][c] = NaN
                                              THEN v ELSE d.rows[k][c]]])

(* df[col] = v *)
SetColumn(d, col, v) ==
    Frame(d.columns \cup {col},
          [k \in DOMAIN d.rows |->
              [c \in d.columns \cup {col} |-> IF c = col THEN v ELSE d.rows[k][c]]])

(* pd.concat([a, b]): the rows of a then those of b over the union of the columns *)
Concat(a, b) ==
    LET cols == a.columns \cup b.columns
        widen(r) == [c \in cols |-> IF c \in DOMAIN r THEN r[c] ELSE NaN]
    IN  Frame(cols, [k \in 1..(Len(a.rows) + Len(b.rows)) |->
                        IF k <= Len(a.rows) THEN widen(a.rows[k])
                        ELSE widen(b.rows[k - Len(a.rows)])])

Key(row, subset) == [c \in subset |-> row[c]]

(* rows.drop_duplicates(subset, keep='last'): a row stays iff no later row has
   its key; the order of the rows that stay is kept *)
RECURSIVE DropLast(_, _)
DropLast(rows, subset) ==
    IF rows = << >> THEN << >>
    ELSE LET rest == Tail(rows)
         IN  IF \E k \in DOMAIN rest : Key(rest[k], subset) = Key(Head(rows), subset)
             THEN DropLast(rest, subset)
             ELSE <<Head(rows)>> \o DropLast(rest, subset)

DropDuplicates(d, subset) == Frame(d.columns, DropLast(d.rows, subset))

(* keep='first' instead: a row stays iff no earlier row has its key *)
RECURSIVE DropFirst(_, _)
DropFirst(rows, subset) ==
    IF rows = << >> THEN << >>
    ELSE LET n == Len(rows)
             front == SubSeq(rows, 1, n - 1)
         IN  IF \E k \in DOMAIN front : Key(front[k], subset) = Key(rows[n], subset)
             THEN DropFirst(front, subset)
             ELSE DropFirst(front, subset) \o <<rows[n]>>

----------------------------------------------------------------------------
(* datetime.now().isoformat() and its parse *)

IsoFormat(t) == "T" \o ToString(t)

----------------------------------------------------------------------------
(* The CSV file: whether it exists, its header line (the set of column names,
   empty when the file holds no bytes) and its data lines, each a function from
   the header to the text of a cell *)

NoFile == [exists |-> FALSE, header |-> {}, rows |-> << >>]
ZeroBytes == [exists |-> TRUE, header |-> {}, rows |-> << >>]

TextColumns == {"companyName", "timestamp"}

(* to_csv writes a missing value as the empty cell and a number in decimal *)
ToCsvCell(col, v) ==
    IF col \in TextColumns THEN v
    ELSE IF v = NaN THEN "" ELSE ToString(v)

(* read_csv reads the empty cell as NaN and a decimal as the number *)
FromCsvCell(col, s) ==
    IF col \in TextColumns THEN s
    ELSE IF s = "" THEN NaN ELSE CHOOSE n \in 0..99 : ToString(n) = s

CsvRows(d) == [k \in DOMAIN d.rows |-> [c \in d.columns |-> ToCsvCell(c, d.rows[k][c])]]

(* the file after to_csv has written the header line and the first n rows *)
CsvPrefix(d, n) == [exists |-> TRUE, header |-> d.columns, rows |-> SubSeq(CsvRows(d), 1, n)]

ToCsv(d) == CsvPrefix(d, Len(d.rows))

(* pd.read_csv(file_path) of the scraper; it raises EmptyDataError on a file
   without a header line *)
ReadCsvRaises(f) == f.header = {}

ReadCsv(f) ==
    Frame(f.header, [k \in DOMAIN f.rows |-> [c \in f.header |-> FromCsvCell(c, f.rows[k][c])]])

----------------------------------------------------------------------------
(* EnhancedBVLDataFetcher *)

(* the body of fetch_data under its try/except: every exception of the attempt
   is caught and turned into the return value None, so the body never raises *)
FetchBody(outcome) ==
    [raised |-> FALSE,
     value  |-> IF outcome.kind = "ok" THEN outcome.json ELSE NoneData]

(* process_data: None when content is not a list, when no record is of a target
   company, or when an exception (the KeyError of df[["buy", "sell"]]) is caught *)
ProcessData(d, targets, now) ==
    IF d.kind = "ContentNotList" THEN NoneDF
    ELSE LET companies_list == IF d.kind = "Content" THEN d.content ELSE << >>
             InTarget(company) == company.companyName \in targets
             filtered_companies == SelectSeq(companies_list, InTarget)
         IN  IF filtered_companies = << >> THEN NoneDF
             ELSE LET frame == DataFrameOf(filtered_companies)
                  IN  IF ~({"buy", "sell"} \subseteq frame.columns) THEN NoneDF
                      ELSE SetColumn(FillNa(frame, {"buy", "sell"}, 0),
                                     "timestamp", IsoFormat(now))

DedupSubset == {"timestamp", "companyName"}

MutCombineExisting(existing_data, d) ==
    Frame(existing_data.columns \cup d.columns,
          DropFirst(Concat(existing_data, d).rows, DedupSubset))

(* save_data, file exists: concat then drop_duplicates(keep='last') *)
CombineExisting(existing_data, d) == DropDuplicates(Concat(existing_data, d), DedupSubset)

(* save_data, file does not exist: combined = df *)
CombineNew(d) == d

(* a save that writes the batch over whatever the file holds *)
MutCombined(f, d) == CombineNew(d)

(* save_data: the value of `combined` for the file f and the batch d *)
Combined(f, d) == IF f.exists THEN CombineExisting(ReadCsv(f), d) ELSE CombineNew(d)

(* the file a save_data call that returns True leaves *)
MergedStore(f, d) == ToCsv(Combined(f, d))

(* the empty stand-in of the backend: EmptyDataLoader.df *)
EmptyDataLoaderDF == Frame({"companyName", "last", "timestamp"}, << >>)

NoResponse == [endpoint |-> "none", status |-> 0]

(* the default configuration, and one that targets every company *)
TargetSets == {{"CREDICORP LTD."}, Names}

(* no call of process_data or save_data made yet in the iteration *)
NoCalls == [process_data |-> 0, save_data |-> 0]

Init ==
    /\ iterations \in 0..MaxIterations
    /\ target_companies \in TargetSets
    /\ pc = "Idle"
    /\ i = 0
    /\ attempts = << >>
    /\ data = NoneData
    /\ df = NoneDF
    /\ combined = NoneDF
    /\ written = 0
    /\ saved = FALSE
    /\ file = NoFile
    /\ storeBefore = NoFile
    /\ fetchCalls = 0
    /\ iterCalls = NoCalls
    /\ bpc = "Start"
    /\ csv_path_set = FALSE
    /\ snapshot = EmptyDataLoaderDF
    /\ response = NoResponse

(* run(): `for i in range(self.iterations)`; past the last index the loop ends.
   An iteration starts with the call of fetch_data. *)
RunLoop ==
    /\ pc = "Idle"
    /\ IF i < iterations
       THEN /\ pc' = "Fetching"
            /\ fetchCalls' = fetchCalls + 1
            /\ storeBefore' = file
            /\ attempts' = << >>
            /\ iterCalls' = NoCalls
       ELSE /\ pc' = "Done"
            /\ UNCHANGED <<fetchCalls, storeBefore, attempts, iterCalls>>
    /\ UNCHANGED <<iterations, target_companies, i, data, df, combined, written, saved, file>>
    /\ UNCHANGED backendVars

MutAfterFetchFailure == "Done"

(* where run() goes after fetch_data returned a falsy payload: `continue`,
   which takes the loop to its next index without the sleep *)
AfterFetchFailure == "Idle"

(* data = self.fetch_data() and `if not data: continue`.
   fetch_data runs under @retry(stop=stop_after_attempt(3)): one network
   attempt; tenacity calls the body again only when it raised and attempts
   remain, and raises RetryError out of run() when the last attempt raised *)
FetchAttempt ==
    /\ pc = "Fetching"
    /\ \E outcome \in NetworkOutcomes :
          LET result == FetchBody(outcome)
              made == Append(attempts, outcome.kind)
          IN  /\ attempts' = made
              /\ IF result.raised /\ Len(made) < StopAfterAttempt
                 THEN UNCHANGED <<pc, data, i>>
                 ELSE IF result.raised
                      THEN pc' = "Crashed" /\ UNCHANGED <<data, i>>
                      ELSE IF ~Truthy(result.value)
                           THEN pc' = AfterFetchFailure /\ i' = i + 1 /\ data' = NoneData
                           ELSE pc' = "Processing" /\ i' = i /\ data' = result.value
    /\ UNCHANGED <<iterations, target_companies, df, combined, written, saved, file,
                   storeBefore, fetchCalls, iterCalls>>
    /\ UNCHANGED backendVars

(* run(): df = self.process_data(data); save_data is called when df is not None *)
RunProcess ==
    /\ pc = "Processing"
    /\ \E now \in Times :
          /\ df' = ProcessData(data, target_companies, now)
          /\ pc' = IF df'.none THEN "EndIteration" ELSE "Saving"
          /\ iterCalls' = [process_data |-> iterCalls.process_data + 1,
                           save_data |-> iterCalls.save_data + (IF df'.none THEN 0 ELSE 1)]
    /\ data' = NoneData
    /\ UNCHANGED <<iterations, target_companies, i, attempts, combined, written,
                   saved, file, storeBefore, fetchCalls>>
    /\ UNCHANGED backendVars

(* save_data up to `combined`: when the file exists it is read and merged with
   df; an exception (the read fails) is caught and save_data returns False *)
SaveBegin ==
    /\ pc = "Saving"
    /\ IF file.exists
       THEN \E ioOk \in BOOLEAN :
              IF ioOk /\ ~ReadCsvRaises(file)
              THEN /\ combined' = Combined(file, df)
                   /\ pc' = "Opening"
              ELSE /\ combined' = combined
                   /\ pc' = "EndIteration"
       ELSE /\ combined' = Combined(file, df)
            /\ pc' = "Opening"
    /\ UNCHANGED <<iterations, target_companies, i, attempts, data, df, written, saved,
                   file, storeBefore, fetchCalls, iterCalls>>
    /\ UNCHANGED backendVars

(* combined.to_csv(file_path): the file is opened for writing, which creates or
   truncates it; a failure to open leaves the file as it was *)
SaveOpen ==
    /\ pc = "Opening"
    /\ \E ioOk \in BOOLEAN :
          IF ioOk
          THEN file' = ZeroBytes /\ pc' = "Writing" /\ combined' = combined
          ELSE file' = file /\ pc' = "EndIteration" /\ combined' = NoneDF
    /\ written' = 0
    /\ UNCHANGED <<iterations, target_companies, i, attempts, data, df, saved,
                   storeBefore, fetchCalls, iterCalls>>
    /\ UNCHANGED backendVars

(* combined.to_csv(file_path): the header line, then the rows, reach the file
   one after the other; a failed write ends save_data with False and leaves
   what was written; after the last row save_data returns True. The locals of
   save_data end with the call. *)
SaveWrite ==
    /\ pc = "Writing"
    /\ \E ioOk \in BOOLEAN :
          IF ioOk
          THEN /\ file' = CsvPrefix(combined, written)
               /\ IF written = Len(combined.rows)
                  THEN /\ saved' = TRUE
                       /\ pc' = "EndIteration"
                       /\ written' = 0
                       /\ combined' = NoneDF
                  ELSE /\ saved' = saved
                       /\ pc' = "Writing"
                       /\ written' = written + 1
                       /\ combined' = combined
          ELSE /\ pc' = "EndIteration"
               /\ written' = 0
               /\ combined' = NoneDF
               /\ UNCHANGED <<file, saved>>
    /\ UNCHANGED <<iterations, target_companies, i, attempts, data, df,
                   storeBefore, fetchCalls, iterCalls>>
    /\ UNCHANGED backendVars

(* run(): `if i < self.iterations - 1:` sleep, else on to the next index; df
   and the result of save_data are not read again *)
RunEndIteration ==
    /\ pc = "EndIteration"
    /\ IF i < iterations - 1
       THEN pc' = "Waiting" /\ i' = i
       ELSE pc' = "Idle" /\ i' = i + 1
    /\ df' = NoneDF
    /\ saved' = FALSE
    /\ storeBefore' = file
    /\ UNCHANGED <<iterations, target_companies, attempts, data, combined, written,
                   file, fetchCalls, iterCalls>>
    /\ UNCHANGED backendVars

(* run(): time.sleep(self.wait_time) returns *)
Sleep ==
    /\ pc = "Waiting"
    /\ pc' = "Idle"
    /\ i' = i + 1
    /\ UNCHANGED <<iterations, target_companies, attempts, data, df, combined, written,
                   saved, file, storeBefore, fetchCalls, iterCalls>>
    /\ UNCHANGED backendVars

----------------------------------------------------------------------------
(* BackEnd/src/main.py *)

RequiredColumns == {"companyName", "last", "timestamp"}

(* the text of the companyName cells a Store can hold, and
   .str.strip().str.upper() of each *)
NameCells == {"CREDICORP LTD.", " credicorp ltd. ", "ALICORP"}

NormalizeName(s) == IF s = " credicorp ltd. " THEN "CREDICORP LTD." ELSE s

(* parse_dates=["timestamp"] *)
ParseDate(s) == CHOOSE t \in 0..99 : IsoFormat(t) = s

(* a load without the validation of the required columns *)
MutLoadRaises(f) ==
    \/ ~f.exists
    \/ f.header = {}
    \/ "timestamp" \notin f.header

(* find_csv_file raises when the file is not there; read_csv raises on a file
   without a header line and when the parse_dates column is missing;
   _load_data raises when a required column is missing. Every exception ends
   in the except clause at module level. *)
LoadRaises(f) ==
    \/ ~f.exists
    \/ f.header = {}
    \/ "timestamp" \notin f.header
    \/ ~(RequiredColumns \subseteq f.header)

(* the rows read_csv yields, with companyName normalised *)
LoadedRows(f) ==
    [k \in DOMAIN f.rows |->
        [c \in f.header |->
            IF c = "companyName" THEN NormalizeName(f.rows[k][c])
            ELSE IF c = "timestamp" THEN ParseDate(f.rows[k][c])
            ELSE FromCsvCell(c, f.rows[k][c])]]

Perms(n) == {p \in [1..n -> 1..n] : \A a, b \in 1..n : a # b => p[a] # p[b]}

(* a sort that leaves the rows as they are *)
MutSortValues(rows, ascending) == {rows}

(* sort_values("timestamp", ascending): the sort is not stable (quicksort), so
   rows of equal timestamp may come out in any order *)
SortValues(rows, ascending) ==
    LET n == Len(rows)
        InOrder(q) == \A k \in 1..(n - 1) :
                         IF ascending
                         THEN rows[q[k]]["timestamp"] <= rows[q[k + 1]]["timestamp"]
                         ELSE rows[q[k]]["timestamp"] >= rows[q[k + 1]]["timestamp"]
    IN  {[k \in 1..n |-> rows[q[k]]] : q \in {p \in Perms(n) : InOrder(p)}}

(* a load that returns the rows in the order of the file *)
MutLoadResults(f) ==
    IF LoadRaises(f)
    THEN {EmptyDataLoaderDF}
    ELSE {Frame(f.header, LoadedRows(f))}

(* the DataFrames data_loader.df can be after the module-level load of the
   file f: the sorted rows, or the EmptyDataLoader's when the load raised *)
LoadResults(f) ==
    IF LoadRaises(f)
    THEN {EmptyDataLoaderDF}
    ELSE {Frame(f.header, sorted) : sorted \in SortValues(LoadedRows(f), TRUE)}

(* module level: CSV_PATH = find_csv_file(); data_loader = CSVDataLoader(CSV_PATH),
   or the EmptyDataLoader when either raised *)
Load ==
    /\ bpc = "Start"
    /\ bpc' = "Serving"
    /\ csv_path_set' = file.exists
    /\ snapshot' \in LoadResults(file)
    /\ response' = response
    /\ UNCHANGED scraperVars

(* DataFrame.empty *)
IsEmpty(d) == d.rows = << >>

(* GET /health *)
HealthCheck ==
    /\ bpc = "Serving"
    /\ response' = [endpoint |-> "health", status |-> 200,
                    body |-> [data_loaded |-> ~IsEmpty(snapshot),
                              csv_path_set |-> csv_path_set]]
    /\ UNCHANGED <<bpc, csv_path_set, snapshot>>
    /\ UNCHANGED scraperVars

(* Series.unique(): the distinct values in order of first appearance *)
RECURSIVE Unique(_)
Unique(seq) ==
    IF seq = << >> THEN << >>
    ELSE LET n == Len(seq)
             front == SubSeq(seq, 1, n - 1)
         IN  IF \E k \in DOMAIN front : front[k] = seq[n]
             THEN Unique(front)
             ELSE Unique(front) \o <<seq[n]>>

(* GET /api/companies *)
GetCompanies ==
    /\ bpc = "Serving"
    /\ response' =
          IF IsEmpty(snapshot)
          THEN [endpoint |-> "companies", status |-> 503, body |-> << >>]
          ELSE [endpoint |-> "companies", status |-> 200,
                body |-> Unique([k \in DOMAIN snapshot.rows |->
                                    snapshot.rows[k]["companyName"]])]
    /\ UNCHANGED <<bpc, csv_path_set, snapshot>>
    /\ UNCHANGED scraperVars

TargetTicker == "CREDICORP LTD."

(* the instants datetime.now() of a request is drawn from, in days *)
QueryNows == {2, 32, 40}

(* datetime.timestamp(t): seconds since the epoch of the day t *)
EpochSeconds(t) == t * 86400

SelectTicker(d, ticker) ==
    LET IsTicker(r) == r["companyName"] = ticker
    IN  SelectSeq(d.rows, IsTicker)

(* a window that keeps every row, whatever its age *)
MutSinceCutoff(rows, now) == rows

(* credicorp_data[credicorp_data["timestamp"] >= cutoff_date] *)
SinceCutoff(rows, now) ==
    LET Recent(r) == r["timestamp"] >= now - CutoffDays
    IN  SelectSeq(rows, Recent)

(* row.get(col, 0) *)
GetOr0(row, col) == IF col \in DOMAIN row THEN row[col] ELSE 0

(* realtime_data: float() keeps a NaN *)
Realtime(latest) ==
    [price     |-> latest["last"],
     variation |-> GetOr0(latest, "percentageChange"),
     volume    |-> GetOr0(latest, "negotiatedQuantity"),
     timestamp |-> EpochSeconds(latest["timestamp"])]

(* one entry of historical_data; a NaN becomes None, which is NaN here too *)
HistoricalItem(row) == Realtime(row)

(* `all(value is not None for value in item.values())` *)
Complete(item) == item.price # NaN /\ item.variation # NaN /\ item.volume # NaN

RECURSIVE SeqMin(_)
SeqMin(ts) == IF Len(ts) = 1 THEN ts[1]
              ELSE LET m == SeqMin(Tail(ts)) IN IF Head(ts) <= m THEN Head(ts) ELSE m

RECURSIVE SeqMax(_)
SeqMax(ts) == IF Len(ts) = 1 THEN ts[1]
              ELSE LET m == SeqMax(Tail(ts)) IN IF Head(ts) >= m THEN Head(ts) ELSE m

(* what datetime.timestamp(NaT) yields where it does not raise: the seconds of
   the year 1, a number far below every real instant *)
NaTSeconds == -2000000000

(* the try block of get_credicorp_data. historical is the window sorted
   descending; natRaises says whether datetime.timestamp(NaT), which min()
   and max() of an empty window lead to, raises on this platform. *)
CredicorpTry(snap, historical, natRaises) ==
    LET credicorp_data == SelectTicker(snap, TargetTicker)
    IN  IF credicorp_data = << >>
        THEN [raised |-> TRUE, status |-> 404, body |-> << >>]
        ELSE IF historical = << >> /\ natRaises
        THEN [raised |-> TRUE, status |-> 500, body |-> << >>]
        ELSE LET latest == credicorp_data[Len(credicorp_data)]
                 items == [k \in DOMAIN historical |-> HistoricalItem(historical[k])]
                 stamps == [k \in DOMAIN historical |-> historical[k]["timestamp"]]
             IN  [raised |-> FALSE, status |-> 200,
                  body |-> [realtime   |-> Realtime(latest),
                            historical |-> SelectSeq(items, Complete),
                            metadata   |->
                                [data_points |-> Len(SelectSeq(items, Complete)),
                                 from |-> IF historical = << >> THEN NaTSeconds
                                          ELSE EpochSeconds(SeqMin(stamps)),
                                 to   |-> IF historical = << >> THEN NaTSeconds
                                          ELSE EpochSeconds(SeqMax(stamps))]]]

(* `except Exception as e: raise HTTPException(status_code=500, ...)`:
   HTTPException is an Exception, so the 404 raised in the try block is caught
   here as well *)
CredicorpExcept(result) ==
    IF result.raised
    THEN [raised |-> TRUE, status |-> 500, body |-> << >>]
    ELSE result

(* the JSON rendering of a returned body refuses a NaN (allow_nan=False): the
   framework answers 500. now is the instant datetime.now() gave the request. *)
Render(result, now) ==
    IF ~result.raised /\ ~Complete(result.body.realtime)
    THEN [endpoint |-> "credicorp", status |-> 500, body |-> << >>, now |-> now]
    ELSE [endpoint |-> "credicorp", status |-> result.status, body |-> result.body,
          now |-> now]

(* GET /api/credicorp *)
GetCredicorp ==
    /\ bpc = "Serving"
    /\ \E now \in QueryNows, natRaises \in BOOLEAN :
          \E historical \in SortValues(SinceCutoff(SelectTicker(snapshot, TargetTicker), now),
                                       FALSE) :
             response' = Render(CredicorpExcept(CredicorpTry(snapshot, historical, natRaises)),
                                now)
    /\ UNCHANGED <<bpc, csv_path_set, snapshot>>
    /\ UNCHANGED scraperVars

RunNext ==
    \/ RunLoop
    \/ FetchAttempt
    \/ RunProcess
    \/ SaveBegin
    \/ SaveOpen
    \/ SaveWrite
    \/ RunEndIteration
    \/ Sleep

Next == RunNext

Spec == Init /\ [][Next]_vars

(* the scraper and the start of the backend, which reads the file the scraper
   rewrites *)
SharedNext == RunNext \/ Load

SharedSpec == Init /\ [][SharedNext]_vars

(* the backend alone, started on whatever the Store location holds *)
TimeCells == {IsoFormat(t) : t \in Times}

RowSets ==
    {[companyName : NameCells, last : {"10", ""}, timestamp : TimeCells],
     [companyName : NameCells, last : {"10", ""}, timestamp : TimeCells,
      percentageChange : {"1", ""}, negotiatedQuantity : {"7"}],
     [companyName : NameCells, timestamp : TimeCells],
     [companyName : NameCells, last : {"10", ""}]}

HeaderOf(rowSet) == DOMAIN (CHOOSE r \in rowSet : TRUE)

(* the files of at most n rows the backend is started on *)
StoreFiles(n) ==
    {NoFile, ZeroBytes}
    \cup UNION {{[exists |-> TRUE, header |-> HeaderOf(rowSet), rows |-> rs] :
                    rs \in SeqsUpTo(rowSet, n)} : rowSet \in RowSets}

ServeInit ==
    /\ iterations = 0
    /\ target_companies = {"CREDICORP LTD."}
    /\ pc = "Done"
    /\ i = 0
    /\ attempts = << >>
    /\ data = NoneData
    /\ df = NoneDF
    /\ combined = NoneDF
    /\ written = 0
    /\ saved = FALSE
    /\ file \in StoreFiles(MaxStoreRows)
    /\ storeBefore = file
    /\ fetchCalls = 0
    /\ iterCalls = NoCalls
    /\ bpc = "Start"
    /\ csv_path_set = FALSE
    /\ snapshot = EmptyDataLoaderDF
    /\ response = NoResponse

ServeNext ==
    \/ Load
    \/ HealthCheck
    \/ GetCompanies
    \/ GetCredicorp

ServeSpec == ServeInit /\ [][ServeNext]_vars

(* run() is one sequential thread: every step it can take, it takes (the network
   call is bounded by its timeout, the sleep by wait_time). The configuration
   is the default one of get_default_config. *)
FairInit == Init /\ target_companies = {"CREDICORP LTD."}

FairSpec == FairInit /\ [][Next]_vars /\ WF_vars(Next)

----------------------------------------------------------------------------
(* Properties of the write path *)

AllFailed(att) == att # << >> /\ \A k \in DOMAIN att : att[k] # "ok"

(* the rows of the CSV file f that carry the key of the DataFrame row r *)
RowsWithKey(f, r) ==
    {j \in DOMAIN f.rows : \A c \in DedupSubset : f.rows[j][c] = ToCsvCell(c, r[c])}

(* C1: when every network attempt of a fetch_data call failed, the call made
   exactly 3 attempts before it returned its failure to run() *)
C1_ExactlyThreeAttempts ==
    (pc # "Fetching" /\ AllFailed(attempts)) => Len(attempts) = StopAfterAttempt

(* C2: the loop index moves on from a non-last iteration only out of the sleep
   (Waiting), whatever the iteration's outcome, and from the last iteration
   without a sleep *)
C2_WaitBetweenIterations ==
    [][i' # i => ((i < iterations - 1) <=> (pc = "Waiting"))]_vars

(* C3: run() eventually reaches Done, and it reaches Done only after exactly
   `iterations` calls of fetch_data: no failure of an iteration ends it early *)
C3_RunReachesDone ==
    /\ <>(pc = "Done")
    /\ [](pc = "Done" => fetchCalls = iterations)

(* C3 witness: a run of at least two iterations is Done, an earlier iteration
   wrote rows to the Store and the last one failed at the Fetcher *)
C3_Witness ==
    /\ pc = "Done"
    /\ iterations >= 2
    /\ fetchCalls = iterations
    /\ file.rows # << >>
    /\ AllFailed(attempts)

(* C4: after a successful save_data the Store holds at most one row for each
   (timestamp, companyName) *)
C4_StoreKeysUnique ==
    (pc = "EndIteration" /\ saved) =>
        \A j, k \in DOMAIN file.rows :
            Key(file.rows[j], DedupSubset) = Key(file.rows[k], DedupSubset) => j = k

(* the last row of the batch d that carries the key of its row r *)
LastOfKey(d, r) ==
    LET same == {k \in DOMAIN d.rows : Key(d.rows[k], DedupSubset) = Key(r, DedupSubset)}
    IN  d.rows[CHOOSE k \in same : \A m \in same : m <= k]

(* C5: after a Batch was merged into a Store that already held a row with the key
   of one of its rows, the Store holds exactly one row for that key, with the
   values of the Batch *)
C5_LastWriteWins ==
    (pc = "EndIteration" /\ saved) =>
        \A k \in DOMAIN df.rows :
            RowsWithKey(storeBefore, df.rows[k]) # {} =>
                /\ Cardinality(RowsWithKey(file, df.rows[k])) = 1
                /\ \A j \in RowsWithKey(file, df.rows[k]) :
                      \A c \in df.columns :
                          file.rows[j][c] = ToCsvCell(c, LastOfKey(df, df.rows[k])[c])

(* C5 witness: a merge replaced the values of a row the Store already held *)
C5_Witness ==
    /\ pc = "EndIteration"
    /\ saved
    /\ \E k \in DOMAIN df.rows :
          \E j \in RowsWithKey(storeBefore, df.rows[k]) :
              storeBefore.rows[j]["last"] # ToCsvCell("last", df.rows[k]["last"])

(* C6: merging the Batch df into the Store twice leaves as many rows as
   merging it once *)
C6_MergeIdempotent ==
    (pc = "Saving" /\ ~(file.exists /\ ReadCsvRaises(file))) =>
        Len(MergedStore(MergedStore(file, df), df).rows) = Len(MergedStore(file, df).rows)

(* every row of the Store as it was before the iteration is still in the file *)
StoreKept ==
    storeBefore.exists =>
        /\ file.exists
        /\ \A k \in DOMAIN storeBefore.rows :
              \E j \in DOMAIN file.rows : file.rows[j] = storeBefore.rows[k]

(* C8: when an iteration failed at the Fetcher, the Normalizer or the Merger,
   every row the Store held before the iteration is still in it, unchanged *)
C8_FailedIterationKeepsStore ==
    /\ (pc = "Idle" /\ AllFailed(attempts)) => StoreKept
    /\ (pc = "EndIteration" /\ (df.none \/ ~saved)) => StoreKept

----------------------------------------------------------------------------
(* Properties of the Store as the backend reads it *)

(* the complete Stores of the current iteration: the one before its merge and,
   when the iteration has a Batch to merge, the merged one *)
CompleteStores ==
    {storeBefore}
    \cup (IF ~df.none /\ ~(storeBefore.exists /\ ReadCsvRaises(storeBefore))
          THEN {MergedStore(storeBefore, df)}
          ELSE {})

(* C7: whenever the backend loads the Store, what it loads is the load of a
   complete Store: the one before the merge in progress or the merged one *)
C7_ReaderSeesCompleteStore ==
    [][(bpc = "Start" /\ bpc' = "Serving") =>
          \E f \in CompleteStores : snapshot' \in LoadResults(f)]_vars

----------------------------------------------------------------------------
(* Properties of the read API *)

(* C9: GET /api/credicorp on a non-empty Snapshot without a row of the ticker
   answers 404 *)
C9_UnknownTickerNotFound ==
    (/\ response.endpoint = "credicorp"
     /\ ~IsEmpty(snapshot)
     /\ SelectTicker(snapshot, TargetTicker) = << >>) => response.status = 404

(* C10: GET /api/credicorp on an empty Snapshot answers 503, as
   GET /api/companies does *)
C10_EmptySnapshotUnavailable ==
    (response.endpoint = "credicorp" /\ IsEmpty(snapshot)) => response.status = 503

(* the rows of the ticker in the Snapshot, and whether none of their projected
   fields is null *)
TickerRows == SelectTicker(snapshot, TargetTicker)

AllComplete(rows) == \A k \in DOMAIN rows : Complete(Realtime(rows[k]))

(* a row of greatest timestamp among rows *)
IsLatest(rows, r) ==
    /\ \E k \in DOMAIN rows : rows[k] = r
    /\ \A k \in DOMAIN rows : rows[k]["timestamp"] <= r["timestamp"]

(* C11: when the ticker is in the Snapshot and every row of it is older than
   the cutoff, GET /api/credicorp answers 200 with an empty historical, the
   latest row as realtime, and no from/to in the metadata *)
C11_EmptyWindowSucceeds ==
    (/\ response.endpoint = "credicorp"
     /\ TickerRows # << >>
     /\ AllComplete(TickerRows)
     /\ SinceCutoff(TickerRows, response.now) = << >>) =>
        /\ response.status = 200
        /\ response.body.historical = << >>
        /\ \E k \in DOMAIN TickerRows :
              /\ IsLatest(TickerRows, TickerRows[k])
              /\ response.body.realtime = Realtime(TickerRows[k])
        /\ response.body.metadata.from = Absent
        /\ response.body.metadata.to = Absent

(* the timestamps of the returned historical entries *)
ReturnedStamps(body) == [k \in DOMAIN body.historical |-> body.historical[k].timestamp]

(* C12: in a 200 answer of GET /api/credicorp with a non-empty historical, the
   metadata count is the length of the returned historical, and from/to are the
   least and the greatest timestamp of the returned entries *)
C12_MetadataMatchesHistorical ==
    (/\ response.endpoint = "credicorp"
     /\ response.status = 200
     /\ response.body.historical # << >>) =>
        /\ response.body.metadata.data_points = Len(response.body.historical)
        /\ response.body.metadata.from = SeqMin(ReturnedStamps(response.body))
        /\ response.body.metadata.to = SeqMax(ReturnedStamps(response.body))

(* C13: in a 200 answer of GET /api/credicorp every historical entry is not
   older than 30 days before the request and not newer than realtime, and the
   entries are in descending order of timestamp *)
C13_HistoricalWindowDescending ==
    (response.endpoint = "credicorp" /\ response.status = 200) =>
        LET h == response.body.historical
        IN  /\ \A k \in DOMAIN h :
                  /\ h[k].timestamp >= EpochSeconds(response.now - CutoffDays)
                  /\ h[k].timestamp <= response.body.realtime.timestamp
            /\ \A j, k \in DOMAIN h : j < k => h[j].timestamp >= h[k].timestamp

(* C13 witness: a 200 answer with two historical entries of different
   timestamps, from a file that held them in ascending order *)
C13_Witness ==
    /\ response.endpoint = "credicorp"
    /\ response.status = 200
    /\ Len(response.body.historical) >= 2
    /\ response.body.historical[1].timestamp > response.body.historical[2].timestamp
    /\ Len(file.rows) >= 2
    /\ ParseDate(file.rows[1]["timestamp"]) < ParseDate(file.rows[2]["timestamp"])

(* the file is absent, unreadable (no header line) or lacks a required column *)
Unusable(f) == ~f.exists \/ f.header = {} \/ ~({"companyName", "last", "timestamp"} \subseteq f.header)

(* C14: started on an unusable Store the backend serves an empty Snapshot;
   on an empty Snapshot /health answers 200 with data_loaded false and
   /api/companies answers 503; on a non-empty Snapshot /api/companies answers
   the distinct normalised company names of the Store, each once *)
C14_DegradedStart ==
    /\ (bpc = "Serving" /\ Unusable(file)) => IsEmpty(snapshot)
    /\ (response.endpoint = "health" /\ IsEmpty(snapshot)) =>
          (response.status = 200 /\ response.body.data_loaded = FALSE)
    /\ (response.endpoint = "companies" /\ IsEmpty(snapshot)) => response.status = 503
    /\ (response.endpoint = "companies" /\ ~IsEmpty(snapshot)) =>
          /\ response.status = 200
          /\ {response.body[k] : k \in DOMAIN response.body}
                = {NormalizeName(file.rows[k]["companyName"]) : k \in DOMAIN file.rows}
          /\ \A j, k \in DOMAIN response.body :
                response.body[j] = response.body[k] => j = k

(* C14 witness: the file has rows but lacks a required column, and
   /api/companies answered 503 *)
C14_Witness ==
    /\ file.exists
    /\ file.rows # << >>
    /\ Unusable(file)
    /\ response.endpoint = "companies"
    /\ response.status = 503

----------------------------------------------------------------------------
(* Properties of process_data and of run() *)

(* the records of the payload d that are of a target company *)
Matching(d) ==
    LET InTarget(company) == company.companyName \in target_companies
    IN  SelectSeq(d.content, InTarget)

NoQuoteKeys(company) == "buy" \notin DOMAIN company /\ "sell" \notin DOMAIN company

(* C15: process_data of a payload whose records of the target companies carry
   neither buy nor sell yields a Batch with one row per such record, with buy
   and sell 0 *)
C15_QuotesDefaultToZero ==
    [][(/\ pc = "Processing"
        /\ data.kind = "Content"
        /\ Matching(data) # << >>
        /\ \A k \in DOMAIN Matching(data) : NoQuoteKeys(Matching(data)[k])) =>
            /\ ~df'.none
            /\ Len(df'.rows) = Len(Matching(data))
            /\ \A k \in DOMAIN df'.rows :
                  /\ df'.rows[k]["companyName"] = Matching(data)[k].companyName
                  /\ df'.rows[k]["buy"] = 0
                  /\ df'.rows[k]["sell"] = 0]_vars

----------------------------------------------------------------------------
(* Properties of the Snapshot and of realtime *)

(* the rows of the ticker as the file holds them, in the file's order *)
StoreTickerRows == SelectTicker(Frame(file.header, LoadedRows(file)), TargetTicker)

(* C16: realtime of a 200 answer of GET /api/credicorp is the projection of a
   row of greatest timestamp among the ticker's rows of the Store, whatever
   the order of the rows in the file *)
C16_RealtimeIsLatest ==
    (response.endpoint = "credicorp" /\ response.status = 200) =>
        \E k \in DOMAIN StoreTickerRows :
            /\ IsLatest(StoreTickerRows, StoreTickerRows[k])
            /\ response.body.realtime = Realtime(StoreTickerRows[k])

(* C16 witness: the file holds the ticker's newest row before an older one *)
C16_Witness ==
    /\ response.endpoint = "credicorp"
    /\ response.status = 200
    /\ Len(StoreTickerRows) >= 2
    /\ StoreTickerRows[1]["timestamp"] > StoreTickerRows[2]["timestamp"]
    /\ response.body.realtime = Realtime(StoreTickerRows[1])

(* C17: the timestamps of the Snapshot are non-decreasing in index order, and
   no request (health, companies, credicorp) changes the Snapshot *)
C17_SnapshotSortedAndFrozen ==
    /\ [](bpc = "Serving" =>
            \A j, k \in DOMAIN snapshot.rows :
                j < k => snapshot.rows[j]["timestamp"] <= snapshot.rows[k]["timestamp"])
    /\ [][bpc = "Serving" => snapshot' = snapshot]_vars

(* C17 witness: the file held a newer row before an older one, the Snapshot
   holds both, and a request has been answered from it *)
C17_Witness ==
    /\ bpc = "Serving"
    /\ Len(file.rows) >= 2
    /\ Len(snapshot.rows) = Len(file.rows)
    /\ ParseDate(file.rows[1]["timestamp"]) > ParseDate(file.rows[2]["timestamp"])
    /\ snapshot.rows[1]["timestamp"] < snapshot.rows[2]["timestamp"]
    /\ response.endpoint = "credicorp"

----------------------------------------------------------------------------
(* Properties of the Store across a run *)

(* the rows of the file f whose key is the key of the file row r *)
SameKeyRows(f, r) == {j \in DOMAIN f.rows : \A c \in DedupSubset : f.rows[j][c] = r[c]}

(* the file row r carries the key of a row of the batch d *)
KeyInBatch(d, r) ==
    \E k \in DOMAIN d.rows : \A c \in DedupSubset : ToCsvCell(c, d.rows[k][c]) = r[c]

(* C18: after a successful save_data every key the Store held before is still
   in it, and the rows of a key the Batch does not carry are rows the Store
   held before, with their values *)
C18_StoreMergeOnly ==
    (pc = "EndIteration" /\ saved /\ storeBefore.exists) =>
        \A k \in DOMAIN storeBefore.rows :
            /\ SameKeyRows(file, storeBefore.rows[k]) # {}
            /\ ~KeyInBatch(df, storeBefore.rows[k]) =>
                  \A j \in SameKeyRows(file, storeBefore.rows[k]) :
                      \E m \in SameKeyRows(storeBefore, storeBefore.rows[k]) :
                          \A c \in storeBefore.header :
                              file.rows[j][c] = storeBefore.rows[m][c]

(* C18 witness: a successful merge added a row of a new key to a Store that
   held a row of another key *)
C18_Witness ==
    /\ pc = "EndIteration"
    /\ saved
    /\ Len(file.rows) > Len(storeBefore.rows)
    /\ \E k \in DOMAIN storeBefore.rows : ~KeyInBatch(df, storeBefore.rows[k])

----------------------------------------------------------------------------
(* Properties of an iteration of run() *)

(* the payload d is neither null nor the empty JSON object *)
NonEmptyPayload(d) == d.kind \notin {"None", "EmptyDict"}

(* C19: an iteration calls save_data at most once; it calls it only after
   fetch_data returned a truthy payload and with a Batch process_data returned;
   and after a falsy payload, the empty JSON object included, run() goes on as
   after a failed fetch: no process_data, no save_data, the file untouched *)
C19_SaveOncePerTruthyFetch ==
    /\ [](iterCalls.save_data <= 1 /\ iterCalls.process_data <= 1)
    /\ [][iterCalls'.save_data > iterCalls.save_data =>
              (pc = "Processing" /\ NonEmptyPayload(data) /\ ~df'.none /\ pc' = "Saving")]_vars
    /\ [][(pc = "Fetching" /\ pc' # "Fetching" /\ ~NonEmptyPayload(data')) =>
              (pc' = "Idle" /\ i' = i + 1 /\ iterCalls' = NoCalls /\ file' = file)]_vars
    /\ [](pc \in {"Processing", "Saving", "Opening", "Writing"} =>
              attempts[Len(attempts)] = "ok")

(* C19 witness: the second iteration fetched an empty payload and ended with no
   call of process_data or save_data, the Store of the first iteration in place *)
C19_Witness ==
    /\ pc = "Idle"
    /\ i = 2
    /\ attempts = <<"ok">>
    /\ iterCalls = NoCalls
    /\ file.rows # << >>

====
